---- MODULE Spec2Model ----
(***************************************************************************)
(* Model of the retrieval-and-ranking core of the e-commerce RAG project:  *)
(* utils.py (chunker, splitter, sentiment thresholds) and rag.py           *)
(* (RAGSystem: index_products, retrieve_relevant_products,                 *)
(* get_recommendations, generate_explanation, compare_products and the     *)
(* rule-based fallbacks).                                                  *)
(*                                                                         *)
(* Conventions.  A Python str is a sequence of one-character strings.      *)
(* A dict with optional keys is a record plus a field "keys" holding the   *)
(* optional keys that are present.  Ratings are in tenths (45 is 4.5),     *)
(* distances and relevance scores are in tenths (10 is 1.0), VADER         *)
(* compound scores are in hundredths (5 is 0.05).                          *)
(***************************************************************************)
EXTENDS Integers, Sequences, FiniteSets, TLC

VARIABLES
    db,          \* ./chroma_db: the collection "product_embeddings" that self.collection names;
                 \* exists is FALSE once it was deleted and not created again
    hf_api_key,  \* self.hf_api_key
    last,        \* the call that has just finished: its arguments, outcome and what it observed
    rb,          \* the thread running index_products step by step (concurrent specification)
    obs,         \* what a concurrent retrieve_relevant_products observed (concurrent specification)
    ck           \* the product dict a caller of chunk_product_data holds and what the calls returned

vars == <<db, hf_api_key, last, rb, obs, ck>>

-----------------------------------------------------------------------------
(* Bounds *)

MaxDist == 2        \* largest distance (tenths) the index query reports
MaxResults == 2     \* largest max_results passed to a call
MaxRecs == 2        \* longest recommendation list passed to generate_explanation

(* Program constants *)

One == 10               \* the 1 of "1 - distance", in tenths
OverFetch == 3          \* n_results * 3
DefaultChunkSize == 200 \* chunk_size: int = 200
PositiveCompound == 5   \* compound_score >= 0.05, in hundredths
NegativeCompound == -5  \* compound_score <= -0.05, in hundredths
TopReviews == 3         \* reviews[:3]

-----------------------------------------------------------------------------
(* Python str helpers *)

Min(a, b) == IF a <= b THEN a ELSE b

IsSpace(c) == c \in {" ", "\n", "\t"}

IsDelim(c) == c \in {".", "!", "?"}

\* str.lstrip()
RECURSIVE LStrip(_)
LStrip(s) ==
    IF s = <<>> THEN <<>>
    ELSE IF IsSpace(Head(s)) THEN LStrip(Tail(s))
    ELSE s

\* str.rstrip()
RECURSIVE RStrip(_)
RStrip(s) ==
    IF s = <<>> THEN <<>>
    ELSE IF IsSpace(s[Len(s)]) THEN RStrip(SubSeq(s, 1, Len(s) - 1))
    ELSE s

\* str.strip()
Strip(s) == RStrip(LStrip(s))

\* re.split(r'[.!?]+', text), read left to right: the pieces so far, the piece
\* being read, and whether the previous character was a delimiter
RECURSIVE ReSplitFrom(_, _, _, _)
ReSplitFrom(text, pieces, cur, prevDelim) ==
    IF text = <<>> THEN Append(pieces, cur)
    ELSE IF IsDelim(Head(text))
         THEN IF prevDelim
              THEN ReSplitFrom(Tail(text), pieces, cur, TRUE)
              ELSE ReSplitFrom(Tail(text), Append(pieces, cur), <<>>, TRUE)
         ELSE ReSplitFrom(Tail(text), pieces, Append(cur, Head(text)), FALSE)

ReSplit(text) == ReSplitFrom(text, <<>>, <<>>, FALSE)

-----------------------------------------------------------------------------
(* utils.py *)

\* a variant of the loop that starts the next chunk empty, losing the sentence
\* that did not fit
RECURSIVE PackSentencesDropping(_, _, _, _)
PackSentencesDropping(sentences, chunks, current_chunk, chunk_size) ==
    IF sentences = <<>>
    THEN IF current_chunk # <<>> THEN Append(chunks, Strip(current_chunk)) ELSE chunks
    ELSE LET sentence == Strip(Head(sentences))
             rest == Tail(sentences)
         IN  IF sentence = <<>>
             THEN PackSentencesDropping(rest, chunks, current_chunk, chunk_size)
             ELSE IF Len(current_chunk) + Len(sentence) > chunk_size /\ current_chunk # <<>>
                  THEN PackSentencesDropping(rest, Append(chunks, Strip(current_chunk)), <<>>, chunk_size)
                  ELSE IF current_chunk # <<>>
                       THEN PackSentencesDropping(rest, chunks, current_chunk \o <<".", " ">> \o sentence, chunk_size)
                       ELSE PackSentencesDropping(rest, chunks, sentence, chunk_size)

\* The loop of split_text_smart over the sentences: chunks emitted so far and
\* the chunk being packed
RECURSIVE PackSentences(_, _, _, _)
PackSentences(sentences, chunks, current_chunk, chunk_size) ==
    IF sentences = <<>>
    THEN IF current_chunk # <<>> THEN Append(chunks, Strip(current_chunk)) ELSE chunks
    ELSE LET sentence == Strip(Head(sentences))
             rest == Tail(sentences)
         IN  IF sentence = <<>>
             THEN PackSentences(rest, chunks, current_chunk, chunk_size)
             ELSE IF Len(current_chunk) + Len(sentence) > chunk_size /\ current_chunk # <<>>
                  THEN PackSentences(rest, Append(chunks, Strip(current_chunk)), sentence, chunk_size)
                  ELSE IF current_chunk # <<>>
                       THEN PackSentences(rest, chunks, current_chunk \o <<".", " ">> \o sentence, chunk_size)
                       ELSE PackSentences(rest, chunks, sentence, chunk_size)

split_text_smart(text, chunk_size) ==
    IF Len(text) <= chunk_size THEN <<text>>
    ELSE PackSentences(ReSplit(text), <<>>, <<>>, chunk_size)

\* VADER's compound score of a review text, in hundredths: the library is a
\* black box, so the score is a table over the review texts of the model
Compound(text) ==
    CASE text = <<"g", "o", "o", "d">> -> 44
      [] text = <<"b", "a", "d">> -> -54
      [] OTHER -> 0

analyze_sentiment(text) ==
    LET compound_score == Compound(text)
    IN  IF compound_score >= PositiveCompound THEN "Positive"
        ELSE IF compound_score <= NegativeCompound THEN "Negative"
        ELSE "Neutral"

\* a variant that computes the label on every call, labelled or not
LabelReviewAlways(review) ==
    [review EXCEPT !.keys = @ \cup {"sentiment"}, !.sentiment = analyze_sentiment(review.text)]

\* lines 53-55: a review without a label gets one, a labelled review keeps its own
LabelReview(review) ==
    IF "sentiment" \in review.keys THEN review
    ELSE [review EXCEPT !.keys = @ \cup {"sentiment"}, !.sentiment = analyze_sentiment(review.text)]

LabelReviews(reviews) == [i \in 1..Len(reviews) |-> LabelReview(reviews[i])]

\* [r for r in reviews if r.get('sentiment') == sentiment]
RECURSIVE ReviewsWith(_, _)
ReviewsWith(reviews, sentiment) ==
    IF reviews = <<>> THEN <<>>
    ELSE IF "sentiment" \in Head(reviews).keys /\ Head(reviews).sentiment = sentiment
         THEN <<Head(reviews)>> \o ReviewsWith(Tail(reviews), sentiment)
         ELSE ReviewsWith(Tail(reviews), sentiment)

\* the text of a chunk is a sequence of strings: the labels of the f-string and
\* the values put between them
BasicInfoText(product) ==
    <<"Product: ", product.title, "\nCategory: ", product.category,
      "\nPrice: $", ToString(product.price), "\nRating: ", ToString(product.rating), "/5">>

DescriptionChunks(product, chunk_size) ==
    LET description == IF "description" \in product.keys THEN product.description ELSE <<>>
    IN  IF description # <<>>
        THEN LET desc_chunks == split_text_smart(description, chunk_size)
             IN  [i \in 1..Len(desc_chunks) |->
                    [text |-> <<"Product Description: ">> \o desc_chunks[i],
                     type |-> "description", n |-> i - 1]]
        ELSE <<>>

RECURSIVE SpecsText(_)
SpecsText(specs) ==
    IF specs = <<>> THEN <<>>
    ELSE <<"- ", Head(specs)[1], ": ", Head(specs)[2], "\n">> \o SpecsText(Tail(specs))

SpecsChunks(product) ==
    IF "specs" \in product.keys /\ product.specs # <<>>
    THEN << [text |-> <<"Product Specifications:\n">> \o SpecsText(product.specs),
             type |-> "specifications", n |-> 0] >>
    ELSE <<>>

RECURSIVE ReviewsText(_)
ReviewsText(reviews) ==
    IF reviews = <<>> THEN <<>>
    ELSE <<"Rating: ", ToString(Head(reviews).rating), "/5 - ">> \o Head(reviews).text \o <<"\n">>
         \o ReviewsText(Tail(reviews))

\* sentiment.lower()
SentimentLower(sentiment) ==
    CASE sentiment = "Positive" -> "positive"
      [] sentiment = "Negative" -> "negative"
      [] sentiment = "Neutral" -> "neutral"

\* a variant that renders the whole group
ReviewChunkUncut(reviews, sentiment) ==
    LET group == ReviewsWith(reviews, sentiment)
    IN  IF group # <<>>
        THEN << [text |-> <<sentiment, " Customer Reviews:\n">> \o ReviewsText(group),
                 type |-> "reviews_" \o SentimentLower(sentiment), n |-> 0] >>
        ELSE <<>>

ReviewChunk(reviews, sentiment) ==
    LET group == ReviewsWith(reviews, sentiment)
    IN  IF group # <<>>
        THEN << [text |-> <<sentiment, " Customer Reviews:\n">>
                          \o ReviewsText(SubSeq(group, 1, Min(TopReviews, Len(group)))),
                 type |-> "reviews_" \o SentimentLower(sentiment), n |-> 0] >>
        ELSE <<>>

ReviewChunks(product) ==
    IF "reviews" \in product.keys /\ product.reviews # <<>>
    THEN LET reviews == LabelReviews(product.reviews)
         IN  ReviewChunk(reviews, "Positive") \o ReviewChunk(reviews, "Negative")
             \o ReviewChunk(reviews, "Neutral")
    ELSE <<>>

\* a variant that emits the specifications before the description
chunk_product_data_specs_first(product, chunk_size) ==
    << [text |-> BasicInfoText(product), type |-> "basic_info", n |-> 0] >>
    \o SpecsChunks(product)
    \o DescriptionChunks(product, chunk_size)
    \o ReviewChunks(product)

chunk_product_data(product, chunk_size) ==
    << [text |-> BasicInfoText(product), type |-> "basic_info", n |-> 0] >>
    \o DescriptionChunks(product, chunk_size)
    \o SpecsChunks(product)
    \o ReviewChunks(product)

\* lines 51-55: the loop stores the labels on the reviews of the caller's dict
LabelledProduct(product) ==
    IF "reviews" \in product.keys /\ product.reviews # <<>>
    THEN [product EXCEPT !.reviews = LabelReviews(@)]
    ELSE product

-----------------------------------------------------------------------------
(* The catalog items of the model *)

Item(id, price, rating, keys, description, specs) ==
    [id |-> id, title |-> "T_" \o id, category |-> "cat", price |-> price, rating |-> rating,
     keys |-> keys, description |-> description, specs |-> specs, reviews |-> <<>>]

\* two revisions of item "a" (the price and the rating changed), and item "b"
\* with specifications and no description key
Products ==
    { Item("a", 100, 45, {"description", "reviews"}, <<"A", "b">>, <<>>),
      Item("a", 150, 40, {"description", "reviews"}, <<"A", "b">>, <<>>),
      Item("b", 150, 40, {"specs", "reviews"}, <<>>, << <<"k", "v">> >>) }

UniqueIds(products) ==
    \A i, j \in 1..Len(products) : products[i].id = products[j].id => i = j

\* catalogs: every sequence of items with unique identifiers
Catalogs ==
    { products \in UNION { [1..n -> Products] : n \in 0..Cardinality({ p.id : p \in Products }) } :
        UniqueIds(products) }

-----------------------------------------------------------------------------
(* rag.py: the vector index *)

\* lines 38-50: the records index_products builds for one product
ProductRecords(product) ==
    LET chunks == chunk_product_data(product, DefaultChunkSize)
    IN  [i \in 1..Len(chunks) |->
           [id |-> <<product.id, i - 1>>,
            document |-> chunks[i].text,
            metadata |-> [product_id |-> product.id,
                          chunk_type |-> <<chunks[i].type, chunks[i].n>>,
                          title |-> product.title,
                          category |-> product.category,
                          price |-> product.price,
                          rating |-> product.rating]]]

\* lines 30-50: documents, metadatas and ids, one record per chunk, in order
RECURSIVE CatalogRecords(_)
CatalogRecords(products) ==
    IF products = <<>> THEN <<>>
    ELSE ProductRecords(Head(products)) \o CatalogRecords(Tail(products))

Range(s) == { s[i] : i \in 1..Len(s) }

\* the collection "product_embeddings" of ./chroma_db
EmptyCollection == [exists |-> TRUE, records |-> {}]

NoCollection == [exists |-> FALSE, records |-> {}]

\* collection.add: a record whose id the collection already holds is skipped
CollectionAdd(coll, docs) ==
    [coll EXCEPT !.records =
        @ \cup { r \in Range(docs) : \A old \in coll.records : old.id # r.id }]

\* the steps of index_products that call the encoder or the database
IndexSteps == {"encode", "delete", "create", "add"}

\* index_products on the collection coll when the steps in failing raise:
\* the collection afterwards and whether the call raised
DeleteAndCreate(coll, failing) ==
    IF ~coll.exists \/ "delete" \in failing THEN coll       \* delete_collection raised: except: pass
    ELSE IF "create" \in failing THEN NoCollection          \* create_collection raised: except: pass
    ELSE EmptyCollection

index_products(coll, products, failing) ==
    LET docs == CatalogRecords(products)
    IN  IF docs = <<>> THEN [db |-> coll, raised |-> FALSE]
        ELSE IF "encode" \in failing THEN [db |-> coll, raised |-> TRUE]
        ELSE LET fresh == DeleteAndCreate(coll, failing)
             IN  IF ~fresh.exists \/ "add" \in failing
                 THEN [db |-> fresh, raised |-> TRUE]
                 ELSE [db |-> CollectionAdd(fresh, docs), raised |-> FALSE]

Dists == 0..MaxDist

\* sequences of n distinct elements of S
RECURSIVE InjSeqs(_, _)
InjSeqs(S, n) ==
    IF n = 0 THEN { <<>> }
    ELSE UNION { { <<x>> \o t : t \in InjSeqs(S \ {x}, n - 1) } : x \in S }

\* non-decreasing sequences of n distances, none below lo
RECURSIVE AscendingDists(_, _)
AscendingDists(n, lo) ==
    IF n = 0 THEN { <<>> }
    ELSE UNION { { <<d>> \o t : t \in AscendingDists(n - 1, d) } : d \in lo..MaxDist }

\* collection.query(n_results = k): the k nearest records (all of them when the
\* collection holds fewer), ascending by distance.  The embeddings are not
\* modelled: every assignment of distances and every order among them is possible
QueryResults(coll, k) ==
    LET n == Min(k, Cardinality(coll.records))
    IN  { [i \in 1..n |-> [metadata |-> recs[i].metadata, distance |-> dists[i], id |-> recs[i].id]] :
            recs \in InjSeqs(coll.records, n), dists \in AscendingDists(n, 0) }

-----------------------------------------------------------------------------
(* rag.py: retrieval *)

\* lines 86-101: product_scores, a dict in insertion order, as a sequence of
\* entries [product_id, max_score, metadata]
IndexOfProduct(product_scores, product_id) ==
    IF \E i \in 1..Len(product_scores) : product_scores[i].product_id = product_id
    THEN CHOOSE i \in 1..Len(product_scores) : product_scores[i].product_id = product_id
    ELSE 0

Max(a, b) == IF a >= b THEN a ELSE b

Relevance(distance) == One - distance

\* AddHit with the score of the latest chunk written over the earlier one
AddHitOverwrite(product_scores, hit) ==
    LET product_id == hit.metadata.product_id
        relevance_score == One - hit.distance
        i == IndexOfProduct(product_scores, product_id)
    IN  IF i = 0
        THEN Append(product_scores,
                    [product_id |-> product_id, max_score |-> relevance_score, metadata |-> hit.metadata])
        ELSE [product_scores EXCEPT ![i].max_score = relevance_score]

AddHit(product_scores, hit) ==
    LET product_id == hit.metadata.product_id
        relevance_score == Relevance(hit.distance)
        i == IndexOfProduct(product_scores, product_id)
    IN  IF i = 0
        THEN Append(product_scores,
                    [product_id |-> product_id, max_score |-> relevance_score, metadata |-> hit.metadata])
        ELSE [product_scores EXCEPT ![i].max_score = Max(@, relevance_score)]

RECURSIVE GroupByProduct(_, _)
GroupByProduct(hits, product_scores) ==
    IF hits = <<>> THEN product_scores
    ELSE GroupByProduct(Tail(hits), AddHit(product_scores, Head(hits)))

\* sorted(..., key = max_score, reverse = True): stable, equal keys keep their order
\* InsertDesc with reverse = True forgotten
RECURSIVE InsertAsc(_, _)
InsertAsc(sorted, e) ==
    IF sorted = <<>> THEN <<e>>
    ELSE IF Head(sorted).max_score <= e.max_score
         THEN <<Head(sorted)>> \o InsertAsc(Tail(sorted), e)
         ELSE <<e>> \o sorted

\* a descending insertion that puts an entry before the entries of equal score
RECURSIVE InsertDescUnstable(_, _)
InsertDescUnstable(sorted, e) ==
    IF sorted = <<>> THEN <<e>>
    ELSE IF Head(sorted).max_score > e.max_score
         THEN <<Head(sorted)>> \o InsertDescUnstable(Tail(sorted), e)
         ELSE <<e>> \o sorted

RECURSIVE InsertDesc(_, _)
InsertDesc(sorted, e) ==
    IF sorted = <<>> THEN <<e>>
    ELSE IF Head(sorted).max_score >= e.max_score
         THEN <<Head(sorted)>> \o InsertDesc(Tail(sorted), e)
         ELSE <<e>> \o sorted

RECURSIVE SortDesc(_)
SortDesc(entries) ==
    IF entries = <<>> THEN <<>>
    ELSE InsertDesc(SortDesc(SubSeq(entries, 1, Len(entries) - 1)), entries[Len(entries)])

\* TopProducts without the [:n_results] cut
TopProductsUncut(product_scores, n_results) == SortDesc(product_scores)

\* lines 104-108
TopProducts(product_scores, n_results) ==
    LET sorted_products == SortDesc(product_scores)
    IN  SubSeq(sorted_products, 1, Min(n_results, Len(sorted_products)))

\* lines 85-110: from the hits of the index query to the list of (metadata, score)
RankHits(hits, n_results) ==
    LET top == TopProducts(GroupByProduct(hits, <<>>), n_results)
    IN  [i \in 1..Len(top) |-> [metadata |-> top[i].metadata, score |-> top[i].max_score]]

\* next((p for p in products if p['id'] == product_id), None): 0 stands for None
FindProduct(products, product_id) ==
    IF \E i \in 1..Len(products) : products[i].id = product_id
    THEN CHOOSE i \in 1..Len(products) :
            /\ products[i].id = product_id
            /\ \A j \in 1..(i - 1) : products[j].id # product_id
    ELSE 0

\* MatchProducts that keeps an item the supplied catalog does not hold
MatchProductsUnfiltered(relevant_results, products) ==
    [i \in 1..Len(relevant_results) |->
       [product |-> CHOOSE p \in Products : p.id = relevant_results[i].metadata.product_id,
        score |-> relevant_results[i].score]]

\* lines 128-134
RECURSIVE MatchProducts(_, _)
MatchProducts(relevant_results, products) ==
    IF relevant_results = <<>> THEN <<>>
    ELSE LET i == FindProduct(products, Head(relevant_results).metadata.product_id)
             rest == MatchProducts(Tail(relevant_results), products)
         IN  IF i # 0
             THEN << [product |-> products[i], score |-> Head(relevant_results).score] >> \o rest
             ELSE rest

-----------------------------------------------------------------------------
(* rag.py: explanation and comparison *)

\* os.getenv('HUGGINGFACE_API_KEY'): unset (None), set to the empty string, or set
KeyValues == {"None", "", "hf_key"}

\* KeySet as a test against None alone
KeyNotNone(key) == key # "None"

\* if self.hf_api_key:
KeySet(key) == key \notin {"None", ""}

HighRelevance == 8      \* score > 0.8, in tenths
ExcellentRating == 45   \* rating >= 4.5, in tenths
TopExplained == 3       \* recommendations[:3]

\* no text: the call raised
NoText == [kind |-> "none"]

\* the prompt sent to the backend, as one token of the generated text
PROMPT == "<prompt>"

\* what the POST to the inference API can come to: requests.post raises (network
\* error, timeout), a status other than 200, a body that is not JSON, JSON that
\* is not a non-empty list, a list whose first element has no .get, or a list
\* whose first element holds generated_text ('' when the key is absent)
GeneratedTexts ==
    { <<>>, <<" ">>, <<PROMPT>>, <<PROMPT, " ", "o", "k", "\n">>, <<" ", "o", "k">> }

BackendOutcomes ==
    { [kind |-> k, generated_text |-> <<>>] :
        k \in {"exception", "status", "bad_json", "not_list", "empty_list", "no_get"} }
    \cup { [kind |-> "ok", generated_text |-> g] : g \in GeneratedTexts }

NotContacted == [kind |-> "none", generated_text |-> <<>>]

\* generated_text.replace(prompt, '')
RECURSIVE RemovePrompt(_)
RemovePrompt(text) ==
    IF text = <<>> THEN <<>>
    ELSE IF Head(text) = PROMPT THEN RemovePrompt(Tail(text))
    ELSE <<Head(text)>> \o RemovePrompt(Tail(text))

\* _query_huggingface(prompt) with the key `key` when the backend answers
\* `backend`: is_none says the call returned None, calls counts the POSTs
query_huggingface(key, backend) ==
    IF ~KeySet(key) THEN [is_none |-> TRUE, text |-> <<>>, calls |-> 0]
    ELSE IF backend.kind = "ok"
         THEN [is_none |-> FALSE, calls |-> 1,
               text |-> IF \E i \in 1..Len(backend.generated_text) : backend.generated_text[i] = PROMPT
                        THEN Strip(RemovePrompt(backend.generated_text))
                        ELSE Strip(backend.generated_text)]
         ELSE [is_none |-> TRUE, text |-> <<>>, calls |-> 1]

\* if response: neither None nor ''
Truthy(response) == ~response.is_none /\ response.text # <<>>

\* str.lower()
LowerChar(c) ==
    CASE c = "A" -> "a"
      [] c = "B" -> "b"
      [] c = "Z" -> "z"
      [] OTHER -> c

Lower(s) == [i \in 1..Len(s) |-> LowerChar(s[i])]

\* str.split(): the maximal runs of characters that are not whitespace
RECURSIVE SplitFrom(_, _, _)
SplitFrom(text, words, cur) ==
    IF text = <<>> THEN IF cur # <<>> THEN Append(words, cur) ELSE words
    ELSE IF IsSpace(Head(text))
         THEN SplitFrom(Tail(text), IF cur # <<>> THEN Append(words, cur) ELSE words, <<>>)
         ELSE SplitFrom(Tail(text), words, Append(cur, Head(text)))

Split(text) == SplitFrom(text, <<>>, <<>>)

\* a in b, for strings
IsSubstring(a, b) ==
    \E i \in 0..(Len(b) - Len(a)) : SubSeq(b, i + 1, i + Len(a)) = a

\* lines 263-264: the preference test reads product['description'] as soon as
\* there is a preference word, and that raises KeyError when the key is absent
PreferenceReadsDescription(user_preferences) ==
    user_preferences # <<>> /\ Split(user_preferences) # <<>>

MatchesPreferences(product, user_preferences) ==
    /\ user_preferences # <<>>
    /\ \E i \in 1..Len(Split(user_preferences)) :
          IsSubstring(Lower(Split(user_preferences)[i]), Lower(product.description))

\* lines 258-265
Reasons(product, score, user_preferences) ==
    (IF score > HighRelevance THEN <<"highly relevant to your search">> ELSE <<>>)
    \o (IF product.rating >= ExcellentRating THEN <<"excellent customer ratings">> ELSE <<>>)
    \o (IF MatchesPreferences(product, user_preferences)
        THEN <<"matches your stated preferences">> ELSE <<>>)

\* _generate_fallback_explanation: the text as its parts, raised when building
\* it raises KeyError
generate_fallback_explanation(query, recommendations, user_preferences) ==
    IF recommendations = <<>>
    THEN [raised |-> FALSE, text |-> [kind |-> "no_recommendations"]]
    ELSE LET top == SubSeq(recommendations, 1, Min(TopExplained, Len(recommendations)))
         IN  IF \E i \in 1..Len(top) :
                   /\ PreferenceReadsDescription(user_preferences)
                   /\ "description" \notin top[i].product.keys
             THEN [raised |-> TRUE, text |-> NoText]
             ELSE [raised |-> FALSE,
                   text |-> [kind |-> "fallback_explanation", query |-> query,
                             entries |-> [i \in 1..Len(top) |->
                                [title |-> top[i].product.title, score |-> top[i].score,
                                 price |-> top[i].product.price, rating |-> top[i].product.rating,
                                 category |-> top[i].product.category,
                                 reasons |-> Reasons(top[i].product, top[i].score, user_preferences)]]]]

\* generate_explanation: the text returned, whether the call raised and the
\* number of POSTs
generate_explanation(key, query, recommendations, user_preferences, backend) ==
    IF recommendations = <<>>
    THEN [raised |-> FALSE, calls |-> 0, text |-> [kind |-> "empty"]]
    ELSE LET response == query_huggingface(key, backend)
             fallback == generate_fallback_explanation(query, recommendations, user_preferences)
         IN  IF KeySet(key) /\ Truthy(response)
             THEN [raised |-> FALSE, calls |-> response.calls,
                   text |-> [kind |-> "generated", body |-> response.text]]
             ELSE [raised |-> fallback.raised, text |-> fallback.text,
                   calls |-> IF KeySet(key) THEN response.calls ELSE 0]

\* lines 277-285
PriceVerdict(product1, product2) ==
    IF product1.price < product2.price
    THEN [cheaper |-> product1.title, price_diff |-> product2.price - product1.price]
    ELSE IF product1.price > product2.price
         THEN [cheaper |-> product2.title, price_diff |-> product1.price - product2.price]
         ELSE [cheaper |-> "equal", price_diff |-> 0]

\* lines 287-293
RatingVerdict(product1, product2) ==
    IF product1.rating > product2.rating THEN product1.title
    ELSE IF product1.rating < product2.rating THEN product2.title
    ELSE "equal"

\* a variant of the value rule that lets the first argument win on equal
\* ratings
ValueWinnerFirstOnTie(product1, product2) ==
    IF product1.rating >= product2.rating /\ product1.price <= product2.price
    THEN product1.title
    ELSE IF product2.rating > product1.rating /\ product2.price <= product1.price
         THEN product2.title
         ELSE "neither"

\* a variant of the value rule that asks for a strictly lower price
ValueWinnerStrictPrice(product1, product2) ==
    IF product1.rating > product2.rating /\ product1.price < product2.price
    THEN product1.title
    ELSE IF product2.rating > product1.rating /\ product2.price < product1.price
         THEN product2.title
         ELSE "neither"

\* lines 299-306: the title of the item that offers better value, or "neither"
ValueWinner(product1, product2) ==
    IF product1.rating > product2.rating /\ product1.price <= product2.price
    THEN product1.title
    ELSE IF product2.rating > product1.rating /\ product2.price <= product1.price
         THEN product2.title
         ELSE "neither"

generate_fallback_comparison(product1, product2) ==
    [kind |-> "fallback_comparison",
     titles |-> <<product1.title, product2.title>>,
     price |-> PriceVerdict(product1, product2),
     rating |-> RatingVerdict(product1, product2),
     category_differs |-> product1.category # product2.category,
     winner |-> ValueWinner(product1, product2)]

\* compare_products: the context reads product['description'] of both items
\* before anything else, and that raises KeyError when the key is absent
compare_products(key, product1, product2, backend) ==
    IF "description" \notin product1.keys \/ "description" \notin product2.keys
    THEN [raised |-> TRUE, calls |-> 0, text |-> NoText]
    ELSE LET response == query_huggingface(key, backend)
         IN  IF KeySet(key) /\ Truthy(response)
             THEN [raised |-> FALSE, calls |-> response.calls,
                   text |-> [kind |-> "generated", body |-> response.text]]
             ELSE [raised |-> FALSE, text |-> generate_fallback_comparison(product1, product2),
                   calls |-> IF KeySet(key) THEN response.calls ELSE 0]

\* the arguments of the model's calls
Queries == { <<"q">> }

Preferences == { <<>>, <<" ">>, <<"z">>, <<"z", " ", "B">> }

ExplainScores == { HighRelevance, HighRelevance + 1 }

RecommendationLists ==
    UNION { [1..n -> [product : Products, score : ExplainScores]] : n \in 0..MaxRecs }

\* the answers the backend can give to a call made with the key `key`: it is
\* not contacted without one
BackendFor(key) == IF KeySet(key) THEN BackendOutcomes ELSE {NotContacted}

-----------------------------------------------------------------------------
(* State *)

Idle ==
    [op |-> "none", raised |-> FALSE, stage |-> "", products |-> <<>>, max_results |-> 0,
     failing |-> {}, pre |-> EmptyCollection, hits |-> <<>>, result |-> <<>>,
     query |-> <<>>, recommendations |-> <<>>, user_preferences |-> <<>>,
     backend |-> "none", calls |-> 0, text |-> NoText]

NoRebuild == [pc |-> "idle", products |-> <<>>, docs |-> <<>>, old |-> EmptyCollection]

NoObservation ==
    [seen |-> FALSE, during |-> FALSE, failed |-> FALSE, records |-> {}, old |-> {}, new |-> {}]

\* no product dict is held and chunk_product_data was not called
NoProduct ==
    [loaded |-> FALSE, original |-> <<>>, before |-> <<>>, product |-> <<>>,
     chunk_size |-> 0, calls |-> 0, first |-> <<>>, chunks |-> <<>>]

\* RAGSystem.__init__ on a fresh ./chroma_db: get_collection raises, the
\* collection is created empty
Init ==
    /\ db = EmptyCollection
    /\ hf_api_key \in KeyValues
    /\ last = Idle
    /\ rb = NoRebuild
    /\ obs = NoObservation
    /\ ck = NoProduct

-----------------------------------------------------------------------------
(* Calls, one at a time *)

\* a process restart: RAGSystem.__init__ reopens the persisted collection, or
\* creates it when get_collection raises
Restart ==
    /\ last.op = "none"
    /\ db' = IF db.exists THEN db ELSE EmptyCollection
    /\ hf_api_key' \in KeyValues
    /\ UNCHANGED <<last, rb, obs, ck>>

\* index_products(products), called directly (demo.py)
IndexProducts ==
    /\ last.op = "none"
    /\ \E products \in Catalogs, failing \in SUBSET IndexSteps :
          LET r == index_products(db, products, failing)
          IN  /\ db' = r.db
              /\ last' = [Idle EXCEPT !.op = "index_products", !.raised = r.raised,
                                      !.products = products, !.failing = failing, !.pre = db]
    /\ UNCHANGED <<hf_api_key, rb, obs, ck>>

\* retrieve_relevant_products(query, n_results), for one outcome `hits` of the
\* index query
retrieve_relevant_products(hits, n_results) == RankHits(hits, n_results)

\* a variant that rebuilds on every call
NeedsIndexingAlways(coll) == TRUE

\* line 116: if self.collection.count() == 0
NeedsIndexing(coll) == Cardinality(coll.records) = 0

\* get_recommendations(query, products, user_preferences, max_results).  The
\* query and the preference text reach the result only through the embedding of
\* the enhanced query, that is through the distances of the index query, which
\* QueryResults leaves open.
GetRecommendations ==
    /\ last.op = "none"
    /\ \E products \in Catalogs, max_results \in 1..MaxResults :
          LET call == [Idle EXCEPT !.op = "get_recommendations", !.products = products,
                                   !.max_results = max_results, !.pre = db]
          IN  IF ~db.exists
              THEN \* self.collection.count() raises: the collection is gone
                   /\ db' = db
                   /\ last' = [call EXCEPT !.raised = TRUE, !.stage = "count"]
              ELSE \E failing \in (IF NeedsIndexing(db) THEN SUBSET IndexSteps ELSE {{}}) :
                     LET ix == IF NeedsIndexing(db)
                               THEN index_products(db, products, failing)
                               ELSE [db |-> db, raised |-> FALSE]
                     IN  /\ db' = ix.db
                         /\ IF ix.raised
                            THEN last' = [call EXCEPT !.raised = TRUE, !.stage = "index", !.failing = failing]
                            ELSE \E encode_raises \in BOOLEAN :
                                   IF encode_raises
                                   THEN last' = [call EXCEPT !.raised = TRUE, !.stage = "encode_query",
                                                             !.failing = failing]
                                   ELSE \E hits \in QueryResults(ix.db, max_results * OverFetch) :
                                          last' = [call EXCEPT
                                                     !.stage = "returned", !.failing = failing, !.hits = hits,
                                                     !.result = MatchProducts(
                                                         retrieve_relevant_products(hits, max_results), products)]
    /\ UNCHANGED <<hf_api_key, rb, obs, ck>>

\* generate_explanation(query, recommendations, user_preferences)
GenerateExplanation ==
    /\ last.op = "none"
    /\ \E query \in Queries, recommendations \in RecommendationLists,
          user_preferences \in Preferences, backend \in BackendFor(hf_api_key) :
          LET r == generate_explanation(hf_api_key, query, recommendations, user_preferences, backend)
          IN  last' = [Idle EXCEPT !.op = "generate_explanation", !.raised = r.raised,
                                   !.query = query, !.recommendations = recommendations,
                                   !.user_preferences = user_preferences,
                                   !.backend = backend.kind, !.calls = r.calls, !.text = r.text]
    /\ UNCHANGED <<db, hf_api_key, rb, obs, ck>>

\* compare_products(product1, product2)
CompareProducts ==
    /\ last.op = "none"
    /\ \E product1 \in Products, product2 \in Products, backend \in BackendFor(hf_api_key) :
          LET r == compare_products(hf_api_key, product1, product2, backend)
          IN  last' = [Idle EXCEPT !.op = "compare_products", !.raised = r.raised,
                                   !.products = <<product1, product2>>,
                                   !.backend = backend.kind, !.calls = r.calls, !.text = r.text]
    /\ UNCHANGED <<db, hf_api_key, rb, obs, ck>>

\* the caller takes the outcome of the call: app.py renders it and Streamlit
\* runs main() again on the next interaction
Rerun ==
    /\ last.op # "none"
    /\ last' = Idle
    /\ UNCHANGED <<db, hf_api_key, rb, obs, ck>>

Next ==
    \/ Restart
    \/ IndexProducts
    \/ GetRecommendations
    \/ GenerateExplanation
    \/ CompareProducts
    \/ Rerun

Spec == Init /\ [][Next]_vars

-----------------------------------------------------------------------------
(* A query running while index_products runs: the RAGSystem is one object    *)
(* shared by every Streamlit session (st.cache_resource), each session in a  *)
(* thread of its own, and nothing in rag.py locks the collection.            *)

\* lines 30-54: the records are built and embedded; the collection is untouched
RebuildStart ==
    /\ rb.pc = "idle"
    /\ \E products \in Catalogs :
          LET docs == CatalogRecords(products)
          IN  rb' = IF docs = <<>> THEN NoRebuild
                    ELSE [pc |-> "encoded", products |-> products, docs |-> docs, old |-> db]
    /\ UNCHANGED <<db, hf_api_key, last, obs, ck>>

\* line 58: delete_collection
RebuildDelete ==
    /\ rb.pc = "encoded"
    /\ db' = NoCollection
    /\ rb' = [rb EXCEPT !.pc = "deleted"]
    /\ UNCHANGED <<hf_api_key, last, obs, ck>>

\* lines 59-62: create_collection, and self.collection names the new collection
RebuildCreate ==
    /\ rb.pc = "deleted"
    /\ db' = EmptyCollection
    /\ rb' = [rb EXCEPT !.pc = "created"]
    /\ UNCHANGED <<hf_api_key, last, obs, ck>>

\* lines 67-72: collection.add, and index_products returns
RebuildAdd ==
    /\ rb.pc = "created"
    /\ db' = CollectionAdd(db, rb.docs)
    /\ rb' = NoRebuild
    /\ UNCHANGED <<hf_api_key, last, obs, ck>>

\* lines 80-83 in another thread: the index query runs on whatever
\* self.collection holds at that moment, and raises when the collection is gone
ConcurrentQuery ==
    /\ obs' = [seen |-> TRUE, during |-> rb.pc # "idle", failed |-> ~db.exists,
               records |-> db.records, old |-> rb.old.records, new |-> Range(rb.docs)]
    /\ UNCHANGED <<db, hf_api_key, last, rb, ck>>

NextConc ==
    \/ RebuildStart
    \/ RebuildDelete
    \/ RebuildCreate
    \/ RebuildAdd
    \/ ConcurrentQuery

InitConc == Init /\ hf_api_key = "None"

SpecConc == InitConc /\ [][NextConc]_vars

-----------------------------------------------------------------------------
(* Claims about get_recommendations *)

Recommended == last.op = "get_recommendations" /\ ~last.raised

CatalogIds(products) == { products[i].id : i \in 1..Len(products) }

\* the hits of the last index query that belong to the item product_id
HitsOf(product_id) ==
    { i \in 1..Len(last.hits) : last.hits[i].metadata.product_id = product_id }

\* C1: the list get_recommendations returns is ordered by non-increasing
\* relevance score and no item identifier appears in it more than once
C1_SortedNoDuplicates ==
    Recommended =>
        /\ \A i, j \in 1..Len(last.result) :
              i < j => last.result[i].score >= last.result[j].score
        /\ \A i, j \in 1..Len(last.result) :
              last.result[i].product.id = last.result[j].product.id => i = j

\* C1 witness: two items returned with different scores, out of an index query
\* that returned more records than items (several chunks of one item)
C1_Witness ==
    /\ Recommended
    /\ Len(last.result) = 2
    /\ last.result[1].score > last.result[2].score
    /\ Len(last.hits) > 2
    /\ last.pre.records # {}

\* C2: the score reported for an item is the maximum of 1 - distance over the
\* records of that item among the records the index query returned, which are
\* at most 3 x max_results
C2_ScoreIsMaximum ==
    Recommended =>
        /\ Len(last.hits) <= 3 * last.max_results
        /\ \A i \in 1..Len(last.result) :
              LET mine == HitsOf(last.result[i].product.id)
              IN  /\ \E h \in mine : last.result[i].score = One - last.hits[h].distance
                  /\ \A h \in mine : last.result[i].score >= One - last.hits[h].distance

\* C2 witness: an item is returned whose chunks were hit at two distances
C2_Witness ==
    /\ Recommended
    /\ \E i \in 1..Len(last.result) :
          \E h1, h2 \in HitsOf(last.result[i].product.id) :
              /\ last.hits[h1].distance < last.hits[h2].distance
              /\ last.result[i].score = One - last.hits[h1].distance

\* C3: after index_products returns, the index holds exactly the chunk records
\* derived from the catalog it was given, whatever it held before
C3_RebuildReplacesAll ==
    (last.op = "index_products" /\ ~last.raised) =>
        /\ db.exists
        /\ db.records = Range(CatalogRecords(last.products))

\* C4: when a step of index_products fails, the index is what it was before the
\* call and the error reaches the caller
C4_FailureLeavesIndexIntact ==
    (/\ last.op = "index_products"
     /\ last.failing # {}
     /\ last.products # <<>>) =>
        /\ last.raised
        /\ db = last.pre

\* C5: a query that runs while index_products runs observes either the record
\* set from before the rebuild or the complete new one, and does not fail
C5_NoTornRead ==
    (obs.seen /\ obs.during) =>
        /\ ~obs.failed
        /\ obs.records = obs.old \/ obs.records = obs.new

\* C6: after get_recommendations the index is the index of the catalog it was
\* given: every record references an item of that catalog and every item of
\* the catalog has a record
C6_RebuiltWhenCatalogChanges ==
    Recommended =>
        /\ \A r \in db.records : r.metadata.product_id \in CatalogIds(last.products)
        /\ \A id \in CatalogIds(last.products) :
              \E r \in db.records : r.metadata.product_id = id

\* C7: get_recommendations returns at most max_results pairs, every returned
\* item is an element of the supplied catalog, and an item the index query
\* ranked but the catalog does not hold is left out, the call still returning
C7_AtMostMaxFromCatalog ==
    Recommended =>
        /\ Len(last.result) <= last.max_results
        /\ \A i \in 1..Len(last.result) : last.result[i].product \in Range(last.products)
        /\ \A h \in 1..Len(last.hits) :
              last.hits[h].metadata.product_id \notin CatalogIds(last.products) =>
                  \A i \in 1..Len(last.result) :
                      last.result[i].product.id # last.hits[h].metadata.product_id

\* C7 witness: the index query ranked an item the catalog does not hold, the
\* call returned, and the result is shorter than max_results though the index
\* query returned at least max_results items
C7_Witness ==
    /\ Recommended
    /\ last.result # <<>>
    /\ Len(last.result) < last.max_results
    /\ \E h \in 1..Len(last.hits) :
          last.hits[h].metadata.product_id \notin CatalogIds(last.products)
    /\ Cardinality({ last.hits[h].metadata.product_id : h \in 1..Len(last.hits) })
          >= last.max_results

\* C8: with an empty catalog get_recommendations returns the empty list, whether
\* the collection is empty or holds the records of an earlier catalog (the
\* encoder answering the query); and generate_explanation with no
\* recommendations returns the empty string without a request to the backend
C8_EmptyInputsGiveEmptyResults ==
    /\ (/\ last.op = "get_recommendations"
        /\ last.products = <<>>
        /\ last.pre.exists
        /\ last.stage # "encode_query") =>
            /\ ~last.raised
            /\ last.result = <<>>
    /\ (last.op = "generate_explanation" /\ last.recommendations = <<>>) =>
            /\ ~last.raised
            /\ last.text.kind = "empty"
            /\ last.calls = 0

\* C8 witness: an empty catalog, a collection that holds the records of an
\* earlier catalog, an index query that returned some of them
C8_Witness ==
    /\ Recommended
    /\ last.products = <<>>
    /\ last.pre.records # {}
    /\ last.hits # <<>>
    /\ last.result = <<>>

\* C9: when encoding the query fails, get_recommendations returns the empty list
C9_EncodeFailureGivesEmpty ==
    (last.op = "get_recommendations" /\ last.stage = "encode_query") =>
        /\ ~last.raised
        /\ last.result = <<>>

-----------------------------------------------------------------------------
(* Claims about generate_explanation and compare_products *)

NoCredential == hf_api_key \in {"None", ""}

Explained == last.op = "generate_explanation"

Compared == last.op = "compare_products"

BackendFailed ==
    /\ last.calls >= 1
    /\ last.backend \in {"exception", "status", "bad_json", "not_list", "empty_list", "no_get"}

\* C11: when the backend fails, generate_explanation and compare_products
\* return the rule-based fallback text for their arguments and do not raise,
\* and no call makes more than one request to the backend
C11_FailureFallsBackOnce ==
    /\ (Explained \/ Compared) => last.calls <= 1
    /\ (Explained /\ BackendFailed) =>
          /\ ~last.raised
          /\ last.text = generate_fallback_explanation(
                             last.query, last.recommendations, last.user_preferences).text
    /\ (Compared /\ BackendFailed) =>
          /\ ~last.raised
          /\ last.text = generate_fallback_comparison(last.products[1], last.products[2])

\* C12: get_recommendations, compare_products and generate_explanation return
\* a value and never raise, for items that hold the guaranteed fields only and
\* for every outcome of the backend and of the index
C12_NeverRaises ==
    last.op \in {"get_recommendations", "generate_explanation", "compare_products"} =>
        ~last.raised

(***************************************************************************)
(* The comparison of two catalog items (app.py:228-291 hands two items of  *)
(* the catalog to compare_products): items with two titles and every       *)
(* combination of a lower and a higher price and rating.                   *)
(***************************************************************************)
ComparePrices == {100, 150}

CompareRatings == {40, 45}

CompareItems ==
    { Item(id, price, rating, {"description"}, <<"A">>, <<>>) :
        id \in {"x", "y"}, price \in ComparePrices, rating \in CompareRatings }

ComparePairs ==
    { pair \in CompareItems \X CompareItems : pair[1].id # pair[2].id }

CompareCatalogItems ==
    /\ last.op = "none"
    /\ \E pair \in ComparePairs, backend \in BackendFor(hf_api_key) :
          LET r == compare_products(hf_api_key, pair[1], pair[2], backend)
          IN  last' = [Idle EXCEPT !.op = "compare_products", !.raised = r.raised,
                                   !.products = pair,
                                   !.backend = backend.kind, !.calls = r.calls, !.text = r.text]
    /\ UNCHANGED <<db, hf_api_key, rb, obs, ck>>

NextCompare ==
    \/ Restart
    \/ CompareCatalogItems
    \/ Rerun

SpecCompare == Init /\ [][NextCompare]_vars

\* the comparison came from the rule-based fallback
FallbackCompared ==
    /\ Compared
    /\ ~last.raised
    /\ last.text.kind = "fallback_comparison"

\* X has the strictly higher rating and a price that is not higher
BetterValue(X, Y) == X.rating > Y.rating /\ X.price <= Y.price

\* C13: the comparison fallback names item X the value winner exactly when X's
\* rating is strictly higher and X's price is lower or equal; in every other
\* case it names no winner (the neutral statement); the item priced 100 with
\* rating 4.5 wins over the item priced 150 with rating 4.0, in either
\* argument order
C13_ValueWinnerRule ==
    FallbackCompared =>
        LET p1 == last.products[1]
            p2 == last.products[2]
            winner == last.text.winner
        IN  /\ (winner = p1.title) <=> BetterValue(p1, p2)
            /\ (winner = p2.title) <=> BetterValue(p2, p1)
            /\ (winner = "neither") <=> (~BetterValue(p1, p2) /\ ~BetterValue(p2, p1))
            /\ \A X \in {p1, p2}, Y \in {p1, p2} :
                  (X.price = 100 /\ X.rating = 45 /\ Y.price = 150 /\ Y.rating = 40)
                      => winner = X.title

\* the fallback compared an item that is better rated at an equal price with
\* the other one, as second argument, and named it
C13_Witness ==
    /\ FallbackCompared
    /\ last.products[2].rating > last.products[1].rating
    /\ last.products[2].price = last.products[1].price
    /\ last.text.winner = last.products[2].title

-----------------------------------------------------------------------------
(***************************************************************************)
(* The chunker on its own: a caller holds a product dict and calls         *)
(* chunk_product_data on it, as index_products does for every item of the  *)
(* catalog on every rebuild (rag.py:34-36).  The dict is the caller's: the *)
(* labels the first call stores on its reviews are there on the next call. *)
(***************************************************************************)
MaxDescLen == 5     \* longest generated description
MaxChunkSize == 3   \* largest small chunk_size
MaxReviews == 4     \* longest list of reviews
MaxChunkCalls == 2  \* calls of chunk_product_data on one dict

DescAlphabet == {"a", "b", ".", " "}

\* 'Great product. Works well. Highly recommended.'
ExampleDescription ==
    <<"G", "r", "e", "a", "t", " ", "p", "r", "o", "d", "u", "c", "t", ".",
      " ", "W", "o", "r", "k", "s", " ", "w", "e", "l", "l", ".", " ", "H",
      "i", "g", "h", "l", "y", " ", "r", "e", "c", "o", "m", "m", "e", "n",
      "d", "e", "d", ".">>

\* the three sentences of the example
ExampleSentences ==
    << <<"G", "r", "e", "a", "t", " ", "p", "r", "o", "d", "u", "c", "t">>,
       <<"W", "o", "r", "k", "s", " ", "w", "e", "l", "l">>,
       <<"H", "i", "g", "h", "l", "y", " ", "r", "e", "c", "o", "m", "m", "e",
      "n", "d", "e", "d">> >>

\* the descriptions: every text over the alphabet up to the bound, two texts
\* with the other delimiters, and the example
Descriptions ==
    UNION { [1..n -> DescAlphabet] : n \in 0..MaxDescLen }
    \cup { <<"a", "!", "b", "?">>, <<"a", "?", "!", " ", "b", "a", ".">>, ExampleDescription }

ChunkSizes == (1..MaxChunkSize) \cup {10, DefaultChunkSize}

Review(text, rating, keys, sentiment) ==
    [text |-> text, rating |-> rating, keys |-> keys, sentiment |-> sentiment]

\* reviews as generate_sample_data writes them (no label), and reviews of a
\* loaded file that carry a label already, one of them a label VADER would
\* not give
ReviewPool ==
    { Review(<<"g", "o", "o", "d">>, 5, {}, ""),
      Review(<<"b", "a", "d">>, 1, {}, ""),
      Review(<<"o", "k">>, 3, {}, ""),
      Review(<<"g", "o", "o", "d">>, 2, {"sentiment"}, "Negative"),
      Review(<<"o", "k">>, 4, {"sentiment"}, "Positive") }

ReviewLists == UNION { [1..n -> ReviewPool] : n \in 0..MaxReviews }

ChunkItem(keys, description, specs, reviews) ==
    [Item("a", 100, 45, keys, description, specs) EXCEPT !.reviews = reviews]

SomeSpecs == << <<"k", "v">>, <<"w", "1">> >>

\* every description, alone and with specifications and reviews around it
DescriptionItems ==
    { ChunkItem({"description"}, d, <<>>, <<>>) : d \in Descriptions }
    \cup { ChunkItem({"description", "specs", "reviews"}, d, SomeSpecs,
                     << Review(<<"b", "a", "d">>, 1, {}, ""), Review(<<"g", "o", "o", "d">>, 5, {}, "") >>) :
             d \in Descriptions }

\* every list of reviews, alone, with a description and specifications, and
\* with an empty specs dict
ReviewItems ==
    { ChunkItem({"reviews"}, <<>>, <<>>, rs) : rs \in ReviewLists }
    \cup { ChunkItem({"description", "specs", "reviews"}, <<"a", ".", "b">>, SomeSpecs, rs) : rs \in ReviewLists }
    \cup { ChunkItem({"specs", "reviews"}, <<>>, <<>>, rs) : rs \in ReviewLists }

ChunkInputs ==
    (DescriptionItems \X ChunkSizes) \cup (ReviewItems \X {2, DefaultChunkSize})

\* a product dict comes to the caller (load_product_data, generate_sample_data)
LoadProduct ==
    /\ ~ck.loaded
    /\ \E input \in ChunkInputs :
          ck' = [NoProduct EXCEPT !.loaded = TRUE, !.original = input[1], !.before = input[1],
                                  !.product = input[1], !.chunk_size = input[2]]
    /\ UNCHANGED <<db, hf_api_key, last, rb, obs>>

\* chunks = chunk_product_data(product, chunk_size)
ChunkProductData ==
    /\ ck.loaded
    /\ ck.calls < MaxChunkCalls
    /\ LET chunks == chunk_product_data(ck.product, ck.chunk_size)
       IN  ck' = [ck EXCEPT !.before = ck.product,
                            !.product = LabelledProduct(ck.product),
                            !.chunks = chunks,
                            !.first = IF ck.calls = 0 THEN chunks ELSE @,
                            !.calls = @ + 1]
    /\ UNCHANGED <<db, hf_api_key, last, rb, obs>>

\* the caller lets go of the dict
DropProduct ==
    /\ ck.loaded
    /\ ck' = NoProduct
    /\ UNCHANGED <<db, hf_api_key, last, rb, obs>>

NextChunk ==
    \/ LoadProduct
    \/ ChunkProductData
    \/ DropProduct

SpecChunk == InitConc /\ [][NextChunk]_vars

Chunked == ck.loaded /\ ck.calls >= 1

\* the place of a chunk type in the fixed order
TypeRank(type) ==
    CASE type = "basic_info" -> 0
      [] type = "description" -> 1
      [] type = "specifications" -> 2
      [] type = "reviews_positive" -> 3
      [] type = "reviews_negative" -> 4
      [] type = "reviews_neutral" -> 5

ChunksOfType(chunks, type) == { i \in 1..Len(chunks) : chunks[i].type = type }

HasDescription(product) == "description" \in product.keys /\ product.description # <<>>

HasSpecs(product) == "specs" \in product.keys /\ product.specs # <<>>

HasReviews(product) == "reviews" \in product.keys /\ product.reviews # <<>>

\* C14: chunk(item) is never empty and starts with basic_info; the types come
\* in the order basic_info, description_0..description_n with consecutive
\* indices, at most one specifications chunk (present iff specs is non-empty),
\* then reviews_positive, reviews_negative, reviews_neutral, each at most
\* once; no description chunk without a description and no reviews chunk
\* without reviews
C14_ChunkOrder ==
    Chunked =>
        LET chunks == ck.chunks
            descs == ChunksOfType(chunks, "description")
        IN  /\ Len(chunks) >= 1
            /\ chunks[1].type = "basic_info"
            /\ ChunksOfType(chunks, "basic_info") = {1}
            /\ \A i \in 1..(Len(chunks) - 1) :
                  \/ TypeRank(chunks[i].type) < TypeRank(chunks[i + 1].type)
                  \/ chunks[i].type = "description" /\ chunks[i + 1].type = "description"
            /\ descs = 2..(Cardinality(descs) + 1)
            /\ \A i \in descs : chunks[i].n = i - 2
            /\ Cardinality(ChunksOfType(chunks, "specifications"))
                  = (IF HasSpecs(ck.original) THEN 1 ELSE 0)
            /\ ~HasDescription(ck.original) => descs = {}
            /\ ~HasReviews(ck.original) =>
                  \A i \in 1..Len(chunks) : TypeRank(chunks[i].type) < 3

\* a chunk sequence with more than one description chunk, the specifications
\* chunk and two reviews chunks after them
C14_Witness ==
    /\ Chunked
    /\ Cardinality(ChunksOfType(ck.chunks, "description")) >= 2
    /\ ChunksOfType(ck.chunks, "specifications") # {}
    /\ ChunksOfType(ck.chunks, "reviews_positive") # {}
    /\ ChunksOfType(ck.chunks, "reviews_negative") # {}

\* the texts split_text_smart returned for the description, in index order
DescriptionBodies(chunks) ==
    LET descs == SelectSeq(chunks, LAMBDA c : c.type = "description")
    IN  [i \in 1..Len(descs) |-> Tail(descs[i].text)]

\* the description went through the sentence loop
SplitBySentences ==
    /\ Chunked
    /\ HasDescription(ck.original)
    /\ Len(ck.original.description) > ck.chunk_size

\* the sentences re.split gives, stripped, without the empty ones
Sentences(text) ==
    LET pieces == ReSplit(text)
        stripped == [i \in 1..Len(pieces) |-> Strip(pieces[i])]
    IN  SelectSeq(stripped, LAMBDA piece : piece # <<>>)

\* C15: for a description longer than the target chunk size, every
\* description chunk is at most the target size long, unless it is a single
\* sentence that alone exceeds the target; a chunk packed from two or more
\* sentences never exceeds the target
C15_ChunkWithinTarget ==
    SplitBySentences =>
        LET bodies == DescriptionBodies(ck.chunks)
        IN  \A i \in 1..Len(bodies) :
               \/ Len(bodies[i]) <= ck.chunk_size
               \/ /\ Len(Sentences(bodies[i])) = 1
                  /\ Len(Sentences(bodies[i])[1]) > ck.chunk_size

Labelled(review) == "sentiment" \in review.keys

\* the labels of a product's reviews, "" for a review without one
Labels(product) ==
    [i \in 1..Len(product.reviews) |->
        IF Labelled(product.reviews[i]) THEN product.reviews[i].sentiment ELSE ""]

\* C16: a review's label is computed only when the review has none, and is
\* stored on the review: a call leaves every existing label as it was and
\* gives every other review the label of analyze_sentiment; so a second call
\* on the same item changes no label and returns the chunks of the first call
C16_ChunkingIdempotent ==
    Chunked =>
        /\ Len(ck.product.reviews) = Len(ck.before.reviews)
        /\ \A i \in 1..Len(ck.before.reviews) :
              /\ Labelled(ck.product.reviews[i])
              /\ ck.product.reviews[i].text = ck.before.reviews[i].text
              /\ Labelled(ck.before.reviews[i]) =>
                    ck.product.reviews[i].sentiment = ck.before.reviews[i].sentiment
              /\ ~Labelled(ck.before.reviews[i]) =>
                    ck.product.reviews[i].sentiment = analyze_sentiment(ck.before.reviews[i].text)
        /\ ck.calls >= 2 =>
              /\ Labels(ck.product) = Labels(ck.before)
              /\ ck.product = ck.before
              /\ ck.chunks = ck.first

\* the second call on an item one of whose reviews came without a label and
\* another with a label that analyze_sentiment would not give it
C16_Witness ==
    /\ Chunked
    /\ ck.calls >= 2
    /\ \E i \in 1..Len(ck.original.reviews) : ~Labelled(ck.original.reviews[i])
    /\ \E i \in 1..Len(ck.original.reviews) :
          /\ Labelled(ck.original.reviews[i])
          /\ ck.original.reviews[i].sentiment # analyze_sentiment(ck.original.reviews[i].text)
    /\ Labels(ck.product) # Labels(ck.original)

\* the sentences of the chunks, read chunk after chunk
RECURSIVE SentencesOfChunks(_)
SentencesOfChunks(bodies) ==
    IF bodies = <<>> THEN <<>>
    ELSE Sentences(Head(bodies)) \o SentencesOfChunks(Tail(bodies))

\* C19: for a description longer than the target size the splitter emits
\* only non-empty chunks, and the chunks read in index order give exactly the
\* non-empty sentences of the description (split on '.', '!', '?', trimmed)
\* in their order, each whole and in one chunk; the description
\* 'Great product. Works well. Highly recommended.' with target size 10 gives
\* three chunks, one per sentence
C19_ChunksAreTheSentences ==
    SplitBySentences =>
        LET bodies == DescriptionBodies(ck.chunks)
        IN  /\ \A i \in 1..Len(bodies) : bodies[i] # <<>>
            /\ SentencesOfChunks(bodies) = Sentences(ck.original.description)
            /\ (ck.original.description = ExampleDescription /\ ck.chunk_size = 10) =>
                  bodies = ExampleSentences

\* a description of three sentences went into more than one chunk, one of
\* them packed from two sentences
C19_Witness ==
    /\ SplitBySentences
    /\ Len(Sentences(ck.original.description)) = 3
    /\ Len(DescriptionBodies(ck.chunks)) = 2
    /\ Len(Sentences(DescriptionBodies(ck.chunks)[1])) = 2

SentimentLabels == <<"Positive", "Negative", "Neutral">>

\* the reviews of the product that carry the label, in their order
GroupOf(product, sentiment) ==
    SelectSeq(product.reviews, LAMBDA r : Labelled(r) /\ r.sentiment = sentiment)

\* the lines "Rating: N/5 - text\n" of a list of reviews
RECURSIVE Rendered(_)
Rendered(reviews) ==
    IF reviews = <<>> THEN <<>>
    ELSE <<"Rating: ", ToString(Head(reviews).rating), "/5 - ">> \o Head(reviews).text
         \o <<"\n">> \o Rendered(Tail(reviews))

FirstOf(group, k) == SubSeq(group, 1, IF Len(group) < k THEN Len(group) ELSE k)

\* C20: the reviews of an item are partitioned by label into the Positive,
\* Negative and Neutral groups in their original order, every review is in
\* exactly one group, and every non-empty group gives exactly one
\* reviews_<sentiment> chunk that holds the first min(3, group size) reviews
\* of the group in order and no others; an empty group gives no chunk
C20_ReviewGroups ==
    (Chunked /\ HasReviews(ck.original)) =>
        LET reviews == ck.product.reviews
        IN  /\ \A i \in 1..Len(reviews) :
                  Cardinality({ s \in 1..3 : Labelled(reviews[i])
                                             /\ reviews[i].sentiment = SentimentLabels[s] }) = 1
            /\ Len(GroupOf(ck.product, "Positive")) + Len(GroupOf(ck.product, "Negative"))
                  + Len(GroupOf(ck.product, "Neutral")) = Len(reviews)
            /\ \A s \in 1..3 :
                  LET group == GroupOf(ck.product, SentimentLabels[s])
                      at == ChunksOfType(ck.chunks, "reviews_" \o SentimentLower(SentimentLabels[s]))
                  IN  IF group = <<>>
                      THEN at = {}
                      ELSE /\ Cardinality(at) = 1
                           /\ \A i \in at :
                                 ck.chunks[i].text =
                                     <<SentimentLabels[s], " Customer Reviews:\n">>
                                     \o Rendered(FirstOf(group, TopReviews))

\* an item whose Positive group holds more reviews than the chunk takes, the
\* first of them differing from the one left out
C20_Witness ==
    /\ Chunked
    /\ HasReviews(ck.original)
    /\ Len(GroupOf(ck.product, "Positive")) > TopReviews
    /\ GroupOf(ck.product, "Positive")[1] # GroupOf(ck.product, "Positive")[4]
    /\ ChunksOfType(ck.chunks, "reviews_positive") # {}

(***************************************************************************)
(* The search path alone: the process starts, get_recommendations is       *)
(* called with the catalog of the session (app.py:193-201), the outcome is *)
(* rendered; index_products is reached through get_recommendations only.   *)
(***************************************************************************)
NextRecommend ==
    \/ Restart
    \/ GetRecommendations
    \/ Rerun

SpecRecommend == Init /\ [][NextRecommend]_vars

\* the step is a get_recommendations call that returned its list
RecommendReturns ==
    /\ last.op = "none"
    /\ last'.op = "get_recommendations"
    /\ last'.stage = "returned"

\* C17: get_recommendations rebuilds the index from the catalog it is given
\* exactly when the index holds no record when the call starts: a call that
\* finds records leaves the index as it is, so once the index holds records
\* no later call re-indexes; a call that finds none and returns has put the
\* records of its catalog there
C17_RebuildOnlyWhenEmpty ==
    [][ /\ db.records # {} => db' = db
        /\ (RecommendReturns /\ db.records = {}) =>
              db'.records = Range(CatalogRecords(last'.products)) ]_vars

\* a call with a non-empty catalog other than the indexed one found records
\* in the index, returned, and the index is what it was
C17_Witness ==
    /\ last.op = "get_recommendations"
    /\ last.stage = "returned"
    /\ last.pre.records # {}
    /\ last.products # <<>>
    /\ last.pre.records # Range(CatalogRecords(last.products))
    /\ db = last.pre

\* the place of the item's first record in the list the index query returned
FirstSeen(product_id) ==
    CHOOSE h \in HitsOf(product_id) : \A g \in HitsOf(product_id) : h <= g

\* C18: items of equal aggregated score are returned in first-seen order, the
\* order in which the first record of each appears in the distance-ascending
\* list of the index query
C18_TiesKeepFirstSeenOrder ==
    Recommended =>
        \A i, j \in 1..Len(last.result) :
            (i < j /\ last.result[i].score = last.result[j].score) =>
                FirstSeen(last.result[i].product.id) < FirstSeen(last.result[j].product.id)

\* two items are returned with the same score, and the first of them is not
\* the first in the catalog
C18_Witness ==
    /\ Recommended
    /\ Len(last.result) = 2
    /\ last.result[1].score = last.result[2].score
    /\ last.products[1].id = last.result[2].product.id

-----------------------------------------------------------------------------
(***************************************************************************)
(* The explanation of a list of recommendations (app.py hands the list     *)
(* get_recommendations returned to generate_explanation): lists longer     *)
(* than the three the fallback describes, of items with and without a      *)
(* description.                                                            *)
(***************************************************************************)
MaxExplained == 4   \* longest list of recommendations explained

ExplainItems ==
    { Item("x", 100, 45, {"description"}, <<"a", "Z">>, <<>>),
      Item("y", 150, 40, {"description"}, <<"b">>, <<>>),
      Item("w", 150, 40, {"specs"}, <<>>, << <<"k", "v">> >>) }

ExplainLists ==
    UNION { [1..n -> [product : ExplainItems, score : ExplainScores]] : n \in 0..MaxExplained }

ExplainRecommendations ==
    /\ last.op = "none"
    /\ \E query \in Queries, recommendations \in ExplainLists,
          user_preferences \in Preferences, backend \in BackendFor(hf_api_key) :
          LET r == generate_explanation(hf_api_key, query, recommendations, user_preferences, backend)
          IN  last' = [Idle EXCEPT !.op = "generate_explanation", !.raised = r.raised,
                                   !.query = query, !.recommendations = recommendations,
                                   !.user_preferences = user_preferences,
                                   !.backend = backend.kind, !.calls = r.calls, !.text = r.text]
    /\ UNCHANGED <<db, hf_api_key, rb, obs, ck>>

NextExplain ==
    \/ Restart
    \/ ExplainRecommendations
    \/ Rerun

SpecExplain == Init /\ [][NextExplain]_vars

\* generate_explanation went to the fallback generator with a list to describe
FallbackExplaining ==
    /\ Explained
    /\ last.recommendations # <<>>
    /\ NoCredential \/ BackendFailed

\* a word of the preference text occurs in the description of the item,
\* letter case apart; an item without a description holds no word
PreferenceWordOccurs(product, user_preferences) ==
    /\ HasDescription(product)
    /\ \E from \in 1..Len(user_preferences), to \in 1..Len(user_preferences) :
          /\ from <= to
          /\ \A k \in from..to : ~IsSpace(user_preferences[k])
          /\ from = 1 \/ IsSpace(user_preferences[from - 1])
          /\ to = Len(user_preferences) \/ IsSpace(user_preferences[to + 1])
          /\ IsSubstring(Lower(SubSeq(user_preferences, from, to)), Lower(product.description))

InSeq(x, s) == \E i \in 1..Len(s) : s[i] = x

\* C21: the explanation fallback describes the first min(3, n)
\* recommendations in their order and no others, and lists for each one
\* 'highly relevant' iff its score is above 0.8, 'excellent ratings' iff its
\* rating is at least 4.5, and 'matches preferences' iff the preference text
\* is non-empty and one of its words occurs, letter case apart, in the
\* description of the item; the list of reasons is empty when none applies
C21_FallbackReasons ==
    FallbackExplaining =>
        LET recs == last.recommendations
            n == IF Len(recs) < 3 THEN Len(recs) ELSE 3
        IN  /\ ~last.raised
            /\ last.text.kind = "fallback_explanation"
            /\ Len(last.text.entries) = n
            /\ \A i \in 1..n :
                  LET entry == last.text.entries[i]
                      product == recs[i].product
                  IN  /\ entry.title = product.title
                      /\ entry.score = recs[i].score
                      /\ InSeq("highly relevant to your search", entry.reasons)
                            <=> recs[i].score > 8
                      /\ InSeq("excellent customer ratings", entry.reasons)
                            <=> product.rating >= 45
                      /\ InSeq("matches your stated preferences", entry.reasons)
                            <=> (last.user_preferences # <<>>
                                 /\ PreferenceWordOccurs(product, last.user_preferences))
                      /\ Len(entry.reasons) <= 3

\* C22: the value verdict of the comparison fallback does not depend on the
\* order of the arguments: the call with the two items exchanged names the
\* same winner, or both give the neutral statement; and the two winner
\* branches exclude each other, the two items never both qualify
C22_VerdictIgnoresArgumentOrder ==
    FallbackCompared =>
        LET p1 == last.products[1]
            p2 == last.products[2]
            exchanged == generate_fallback_comparison(p2, p1)
        IN  /\ exchanged.winner = last.text.winner
            /\ last.text.winner \in {p1.title, p2.title, "neither"}
            /\ ~(/\ p1.rating > p2.rating /\ p1.price <= p2.price
                 /\ p2.rating > p1.rating /\ p2.price <= p1.price)

\* the fallback named its second argument, the cheaper item, so that the call
\* with the arguments exchanged reaches the verdict through the other branch
C22_Witness ==
    /\ FallbackCompared
    /\ last.text.winner = last.products[2].title
    /\ last.products[2].price < last.products[1].price
    /\ generate_fallback_comparison(last.products[2], last.products[1]).winner
          = last.products[2].title

====
